---- MODULE Spec2Model ----
(***************************************************************************)
(* File-Extraction-Service: the request pipeline of cmd/server (rate       *)
(* limiter, request pool, OCR pool, handlers) and the hybrid extraction    *)
(* decision engine of internal/hybrid and internal/quality.                *)
(*                                                                         *)
(* Ratios are integers in hundredths (0.25 is 25), the garbage ratio in    *)
(* thousandths.  One logical task per inbound request; an action is one    *)
(* stretch of a handler between two blocking or shared-state operations.   *)
(*                                                                         *)
(* The handlers call processor.ApplyDefaults and processor.ProcessHybrid / *)
(* ProcessPreview; the defaulting and the processing of internal/hybrid    *)
(* (WithDefaults, ProcessHybrid, ProcessPreview) are taken for them.       *)
(***************************************************************************)
EXTENDS Integers, Sequences, FiniteSets, TLC

\* ---------------------------------------------------------------- bounds
NumRequests == 3
MaxPoolSize == 2
MaxPages == 2
MaxOCRPool == 1
MaxBurst == 1
MergePages == 5

Req == 1..NumRequests
NoReq == 0
Clients == Req          \* client keys (one address per number)
Kinds == {"extract", "preview", "image"}

VARIABLES
  cfg,          \* config.Config: the limits main() builds the pools from
  requestSem,   \* semaphore.Weighted of the request pool
  ocrSem,       \* semaphore.Weighted of the OCR pool
  limiters,     \* sync.Map: client key -> limiter (named by its creator)
  buckets,      \* tokens of the limiter each request created (-1: none)
  window,       \* per client: requests allowed since the last refill tick
  rq            \* per request: position in the handler chain and locals

vars == <<cfg, requestSem, ocrSem, limiters, buckets, window, rq>>

\* ------------------------------------------------------------- quality.go
\* Page texts are named by the features Score measures on them.
Texts == {"", "prose", "short", "note", "scan", "table", "ledger"}

\* What CountWords, countIf, countGarbage, lineStats and uniqueWordRatio
\* measure on the (normalized) text: ratios in percent, garbage in permille.
Features(t) ==
  CASE t = ""      -> [wc |-> 0,  alpha |-> 0,  digit |-> 0,  garbage |-> 0,
                       lineCount |-> 0, shortLine |-> 0,  avgLineLen |-> 0,
                       unique |-> 0]
    [] t = "prose" -> [wc |-> 60, alpha |-> 82, digit |-> 1,  garbage |-> 0,
                       lineCount |-> 6, shortLine |-> 16, avgLineLen |-> 58,
                       unique |-> 70]
    [] t = "short" -> [wc |-> 3,  alpha |-> 85, digit |-> 0,  garbage |-> 0,
                       lineCount |-> 1, shortLine |-> 100, avgLineLen |-> 14,
                       unique |-> 100]
    [] t = "note"  -> [wc |-> 8,  alpha |-> 80, digit |-> 2,  garbage |-> 0,
                       lineCount |-> 1, shortLine |-> 0,  avgLineLen |-> 45,
                       unique |-> 100]
    [] t = "scan"  -> [wc |-> 12, alpha |-> 30, digit |-> 5,  garbage |-> 40,
                       lineCount |-> 9, shortLine |-> 90, avgLineLen |-> 6,
                       unique |-> 90]
    [] t = "table" -> [wc |-> 40, alpha |-> 10, digit |-> 60, garbage |-> 0,
                       lineCount |-> 10, shortLine |-> 20, avgLineLen |-> 30,
                       unique |-> 95]
    [] t = "ledger" -> [wc |-> 40, alpha |-> 10, digit |-> 60, garbage |-> 0,
                       lineCount |-> 20, shortLine |-> 80, avgLineLen |-> 12,
                       unique |-> 95]

clamp(x, lo, hi) == IF x < lo THEN lo ELSE IF x > hi THEN hi ELSE x

Penalty(cond, amount) == IF cond THEN amount ELSE 0

\* a band that includes its upper end
NeedsBandInclusive(score) == score <= 55

\* a band that ends at one half
NeedsBandHalf(score) == score < 50

NeedsBand(score) == score < 55

MaybeBand(score) == ~NeedsBand(score) /\ score < 70

Score(text, minWords) ==
  LET f == Features(text)
      raw == 100
             - Penalty(f.wc < minWords, 45)
             - Penalty(f.alpha < 35, 35)
             - Penalty(f.garbage > 10, 40)
             - Penalty(f.lineCount > 0 /\ f.shortLine > 55 /\ f.avgLineLen < 25, 25)
             - Penalty(f.wc > 30 /\ f.unique < 25, 15)
             + Penalty(f.digit > 25 /\ f.alpha < 20 /\ f.wc >= minWords, 10)
      score == clamp(raw, 0, 100)
  IN [Quality |-> score, NeedsOCR |-> NeedsBand(score),
      MaybeOCR |-> MaybeBand(score), WordCount |-> f.wc]

\* -------------------------------------------------------------- hybrid.go
\* The zero value of types.HybridProcessorOptions, as a request may leave it.
DefaultRatio == 30
DefaultMinWords == 10

WithDefaults(o) ==
  [o EXCEPT !.MinWordsThreshold = IF @ = 0 THEN DefaultMinWords ELSE @,
            !.OCRTriggerRatio = IF @ = 0 THEN DefaultRatio ELSE @,
            !.IncludePageNumbers = TRUE]

RECURSIVE Insert(_, _)
Insert(x, s) ==
  IF s = << >> THEN <<x>>
  ELSE IF x <= Head(s) THEN <<x>> \o s
  ELSE <<Head(s)>> \o Insert(x, Tail(s))

RECURSIVE SortInts(_)
SortInts(s) == IF s = << >> THEN << >> ELSE Insert(Head(s), SortInts(Tail(s)))

Range(s) == {s[i] : i \in DOMAIN s}

\* the filter without its range test
RECURSIVE DedupeAnyRange(_, _, _)
DedupeAnyRange(req, total, seen) ==
  IF req = << >> THEN << >>
  ELSE LET n == Head(req) IN
       IF n \in seen
       THEN DedupeAnyRange(Tail(req), total, seen)
       ELSE <<n>> \o DedupeAnyRange(Tail(req), total, seen \cup {n})

RECURSIVE Dedupe(_, _, _)
Dedupe(req, total, seen) ==
  IF req = << >> THEN << >>
  ELSE LET n == Head(req) IN
       IF n < 1 \/ n > total \/ n \in seen
       THEN Dedupe(Tail(req), total, seen)
       ELSE <<n>> \o Dedupe(Tail(req), total, seen \cup {n})

\* a selection that keeps the requested order and the repetitions
normalizePagesAsRequested(req, total) ==
  IF Len(req) = 0 \/ total <= 0 THEN << >>
  ELSE SelectSeq(req, LAMBDA n : n >= 1 /\ n <= total)

\* nil is the empty sequence
normalizePages(req, total) ==
  IF Len(req) = 0 \/ total <= 0 THEN << >>
  ELSE SortInts(Dedupe(req, total, {}))

toZeroIndexed(pages1) == SortInts([i \in DOMAIN pages1 |-> pages1[i] - 1])

PagesToInclude(pages, total) ==
  LET selected == normalizePages(pages, total)
  IN IF selected = << >> THEN [i \in 1..total |-> i] ELSE selected

\* the comparison with >= in place of >
RatioReaches(needs, included, trigger) == needs * 100 >= trigger * included

\* ocrRatio > opts.OCRTriggerRatio, with ocrRatio = needs / included
RatioExceeds(needs, included, trigger) == needs * 100 > trigger * included

\* a lookup that takes blank markdown as well
HasMarkdownOrBlank(resp, page) == page - 1 \in DOMAIN resp

\* cleanOCR then strings.TrimSpace(md) != "": markdown is "" (blank) or "md"
HasMarkdown(resp, page) == page - 1 \in DOMAIN resp /\ resp[page - 1] # ""

\* int((1.0 - float64(ocrCount)/float64(n)) * 100.0): the float64 product
\* falls just below the integer for these (n, ocrCount), exact otherwise
FloatShort == {<<5, 4>>, <<10, 8>>, <<10, 9>>}

Savings(ocrCount, n) ==
  IF n = 0 THEN 0
  ELSE ((n - ocrCount) * 100) \div n - (IF <<n, ocrCount>> \in FloatShort THEN 1 ELSE 0)

\* HybridExtractionResult{Success: false, Error: &msg}; every other field
\* has its zero value (the combined text is a sequence of chunks, see Combine)
fail(msg) == [Success |-> FALSE, Pages |-> << >>, Text |-> << >>,
              TotalPages |-> 0, TextLayerPages |-> 0, OCRPages |-> 0,
              CostSavingsPercent |-> 0, NeedsOCR |-> FALSE, Error |-> msg]

\* format.Combine: the pages with a non-blank text, each with its page
\* marker when includePageNums (0: no marker), joined by the separator
Combine(pages, includePageNums) ==
  LET kept == SelectSeq(pages, LAMBDA p : p.Text # "")
  IN [i \in DOMAIN kept |->
        [marker |-> IF includePageNums THEN kept[i].PageNumber ELSE 0,
         text |-> kept[i].Text]]

\* a merge that takes the response index for the page number
MergeByIndex(include, texts, resp, total, opts) ==
  LET out == [i \in DOMAIN include |->
                IF HasMarkdown(resp, include[i] + 1)
                THEN [PageNumber |-> include[i], Method |-> "ocr",
                      Text |-> resp[include[i]]]
                ELSE [PageNumber |-> include[i], Method |-> "text-layer",
                      Text |-> texts[i]]]
      ocrCount == Cardinality({i \in DOMAIN out : out[i].Method = "ocr"})
  IN [Success |-> TRUE, Pages |-> out,
      Text |-> Combine(out, opts.IncludePageNumbers), TotalPages |-> total,
      TextLayerPages |-> Len(out) - ocrCount, OCRPages |-> ocrCount,
      CostSavingsPercent |-> Savings(ocrCount, Len(out)), NeedsOCR |-> FALSE,
      Error |-> ""]

\* Step 4 of ProcessHybrid: resp maps a zero-based index to its markdown
Merge(include, texts, resp, total, opts) ==
  LET out == [i \in DOMAIN include |->
                IF HasMarkdown(resp, include[i])
                THEN [PageNumber |-> include[i], Method |-> "ocr",
                      Text |-> resp[include[i] - 1]]
                ELSE [PageNumber |-> include[i], Method |-> "text-layer",
                      Text |-> texts[i]]]
      ocrCount == Cardinality({i \in DOMAIN out : out[i].Method = "ocr"})
  IN [Success |-> TRUE, Pages |-> out,
      Text |-> Combine(out, opts.IncludePageNumbers), TotalPages |-> total,
      TextLayerPages |-> Len(out) - ocrCount, OCRPages |-> ocrCount,
      CostSavingsPercent |-> Savings(ocrCount, Len(out)), NeedsOCR |-> FALSE,
      Error |-> ""]

\* The evaluation phase on the texts read for the included pages
Evaluate(include, texts, opts) ==
  LET flagged(i) == Score(texts[i], opts.MinWordsThreshold).NeedsOCR
      idx == SelectSeq([i \in DOMAIN include |-> i], flagged)
      needsOCR == [j \in DOMAIN idx |-> include[idx[j]]]
      pagesForOCR0 ==
        IF Len(needsOCR) > 0
        THEN IF RatioExceeds(Len(needsOCR), Len(include), opts.OCRTriggerRatio)
             THEN toZeroIndexed(include)
             ELSE toZeroIndexed(needsOCR)
        ELSE << >>
  IN [needsOCR |-> needsOCR, pagesForOCR0 |-> pagesForOCR0]

\* a preview that reports every document with a flagged page
PreviewResultAnyFlagged(include, texts, opts, total) ==
  LET ev == Evaluate(include, texts, opts)
      needs == Len(ev.needsOCR)
  IN [Success |-> TRUE, Pages |-> << >>, Text |-> << >>, TotalPages |-> total,
      TextLayerPages |-> Len(include) - needs, OCRPages |-> 0,
      CostSavingsPercent |-> 0, NeedsOCR |-> needs > 0, Error |-> ""]

PreviewResult(include, texts, opts, total) ==
  LET ev == Evaluate(include, texts, opts)
      needs == Len(ev.needsOCR)
  IN [Success |-> TRUE, Pages |-> << >>, Text |-> << >>, TotalPages |-> total,
      TextLayerPages |-> Len(include) - needs, OCRPages |-> 0,
      CostSavingsPercent |-> 0,
      NeedsOCR |-> needs > 0 /\ RatioExceeds(needs, Len(include), opts.OCRTriggerRatio),
      Error |-> ""]

\* ---------------------------------------------------- semaphore.Weighted
NewWeighted(n) ==
  [size |-> n, cur |-> 0, waiters |-> << >>]

CanAcquire(s) == s.size - s.cur >= 1 /\ Len(s.waiters) = 0

Take(s) == [s EXCEPT !.cur = @ + 1]

Enqueue(s, r) == [s EXCEPT !.waiters = Append(@, r)]

\* notifyWaiters that wakes the whole queue
notifyWaitersAll(s) == [s EXCEPT !.cur = @ + Len(s.waiters), !.waiters = << >>]

RECURSIVE notifyWaiters(_)
notifyWaiters(s) ==
  IF s.waiters = << >> \/ s.size - s.cur < 1 THEN s
  ELSE notifyWaiters([s EXCEPT !.cur = @ + 1, !.waiters = Tail(@)])

\* a Release that wakes nobody
ReleaseSilently(s) == [s EXCEPT !.cur = @ - 1]

Release(s) == notifyWaiters([s EXCEPT !.cur = @ - 1])

\* A waiter whose context is done leaves the queue
Abandon(s, r) ==
  LET isFront == Head(s.waiters) = r
      left == [s EXCEPT !.waiters = SelectSeq(@, LAMBDA x : x # r)]
  IN IF isFront /\ left.size > left.cur THEN notifyWaiters(left) ELSE left

\* The waiters a semaphore operation handed a slot to
Granted(s, t) == Range(s.waiters) \ Range(t.waiters)

\* ------------------------------------------------------------- cmd/server
ZeroOptions == [MinWordsThreshold |-> 0, OCRTriggerRatio |-> 0,
                IncludePageNumbers |-> FALSE, Pages |-> << >>]

\* The "options" object of a request body that names no field.  A number or
\* a list that is left out is written as its zero value; includePageNumbers
\* is "omitted", "false" or "true".
EmptyOptions == [MinWordsThreshold |-> 0, OCRTriggerRatio |-> 0,
                 IncludePageNumbers |-> "omitted", Pages |-> << >>]

\* parseJSON[types.ExtractRequest]: json.Decoder fills the struct; a bool
\* field that the body leaves out keeps its zero value, false
parseJSON(o) ==
  [MinWordsThreshold |-> o.MinWordsThreshold,
   OCRTriggerRatio |-> o.OCRTriggerRatio,
   IncludePageNumbers |-> o.IncludePageNumbers = "true",
   Pages |-> o.Pages]

NewRequest ==
  [pc |-> "idle", kind |-> "extract", client |-> 1, lim |-> NoReq,
   stale |-> FALSE, cancelled |-> FALSE, holdsReq |-> FALSE,
   holdsOcr |-> FALSE, tmp |-> FALSE, reqOptions |-> EmptyOptions,
   opts |-> ZeroOptions, total |-> 0,
   include |-> << >>, texts |-> << >>, ocrArg |-> << >>, ocrCalls |-> 0,
   failed |-> {}, evals |-> << >>, ocrErr |-> FALSE, ocrResp |-> << >>, code |-> "", result |-> fail(""), trail |-> << >>]

\* main(): both pools are built from the configuration
Init ==
  /\ cfg \in [MaxConcurrentRequests : 1..MaxPoolSize,
              MaxOCRConcurrent : 1..MaxOCRPool,
              RateLimitBurst : 1..MaxBurst]
  /\ requestSem = NewWeighted(cfg.MaxConcurrentRequests)
  /\ ocrSem = NewWeighted(cfg.MaxOCRConcurrent)
  /\ limiters = [c \in Clients |-> NoReq]
  /\ buckets = [r \in Req |-> -1]
  /\ window = [c \in Clients |-> 0]
  /\ rq = [r \in Req |-> NewRequest]

\* writeErr / writeJSON: the response is written, the deferred calls are due
Respond(q, c) == [q EXCEPT !.pc = "unwind", !.code = c,
                           !.trail = Append(@, "response")]

\* a return of the middleware chain before the handler: the request is over
\* and its locals are gone
Reject(q, c) == [NewRequest EXCEPT !.pc = "done"]

\* requests a semaphore operation handed a slot to resume from their wait
Wake(f, gReq, gOcr) ==
  [x \in Req |->
     IF x \in gReq THEN [f[x] EXCEPT !.pc = "req_ready"]
     ELSE IF x \in gOcr THEN [f[x] EXCEPT !.pc = "ocr_ready"]
     ELSE f[x]]

\* withInternalAuth, then withRateLimit up to limiters.Load(ip)
Arrive(r, clients, kinds) ==
  /\ rq[r].pc = "idle"
  /\ \E c \in clients, k \in kinds, authorized \in BOOLEAN :
       LET q == [rq[r] EXCEPT !.client = c, !.kind = k] IN
       rq' = [rq EXCEPT ![r] =
                IF ~authorized THEN Reject(q, "unauthorized")
                ELSE IF limiters[c] # NoReq
                THEN [q EXCEPT !.pc = "rl_allow", !.lim = limiters[c]]
                ELSE [q EXCEPT !.pc = "rl_store"]]
  /\ UNCHANGED <<cfg, requestSem, ocrSem, limiters, buckets, window>>

\* getRateLimiter after a missed Load: rate.NewLimiter and limiters.Store.
\* A Store that races with the cleanup's reassignment of limiters may land
\* in the discarded map.
RlStore(r) ==
  /\ rq[r].pc = "rl_store"
  /\ buckets' = [buckets EXCEPT ![r] = cfg.RateLimitBurst]
  /\ \/ limiters' = [limiters EXCEPT ![rq[r].client] = r]
     \/ rq[r].stale /\ UNCHANGED limiters
  /\ rq' = [rq EXCEPT ![r].pc = "rl_allow", ![r].lim = r, ![r].stale = FALSE]
  /\ UNCHANGED <<cfg, requestSem, ocrSem, window>>

\* a rate limiter whose verdict is not looked at
RlAllowAdmitsAll(r) ==
  /\ rq[r].pc = "rl_allow"
  /\ buckets' = [buckets EXCEPT ![rq[r].lim] = IF @ > 0 THEN @ - 1 ELSE @]
  /\ window' = [window EXCEPT ![rq[r].client] = @ + 1]
  /\ rq' = [rq EXCEPT ![r].pc = "acquire", ![r].trail = Append(@, "rate")]
  /\ UNCHANGED <<cfg, requestSem, ocrSem, limiters>>

\* limiter.Allow(), then withMethod
RlAllow(r) ==
  /\ rq[r].pc = "rl_allow"
  /\ IF buckets[rq[r].lim] > 0
     THEN /\ buckets' = [buckets EXCEPT ![rq[r].lim] = @ - 1]
          /\ window' = [window EXCEPT ![rq[r].client] = @ + 1]
          /\ \E post \in BOOLEAN :
               rq' = [rq EXCEPT ![r] =
                        IF post
                        THEN [rq[r] EXCEPT !.pc = "acquire",
                                           !.trail = Append(@, "rate")]
                        ELSE Reject(rq[r], "method_not_allowed")]
     ELSE /\ rq' = [rq EXCEPT ![r] = Reject(rq[r], "rate_limit")]
          /\ UNCHANGED <<buckets, window>>
  /\ UNCHANGED <<cfg, requestSem, ocrSem, limiters>>

\* One refill interval (cfg.RateLimitEvery) passes: every limiter gains a
\* token up to its burst.
Tick ==
  /\ \/ \E b \in Req : buckets[b] >= 0 /\ buckets[b] < cfg.RateLimitBurst
     \/ \E c \in Clients : window[c] > 0
  /\ buckets' = [b \in Req |->
                   IF buckets[b] >= 0 /\ buckets[b] < cfg.RateLimitBurst
                   THEN buckets[b] + 1 ELSE buckets[b]]
  /\ window' = [c \in Clients |-> 0]
  /\ UNCHANGED <<cfg, requestSem, ocrSem, limiters, rq>>

\* a cleanup that expires the limiters of idle clients only (full buckets)
cleanupRateLimitersIdleOnly ==
  /\ \/ \E c \in Clients : limiters[c] # NoReq
     \/ \E r \in Req : rq[r].pc = "rl_store" /\ ~rq[r].stale
  /\ limiters' = [c \in Clients |->
                    IF limiters[c] # NoReq /\ buckets[limiters[c]] < cfg.RateLimitBurst
                    THEN limiters[c] ELSE NoReq]
  /\ rq' = [r \in Req |->
              IF rq[r].pc = "rl_store" THEN [rq[r] EXCEPT !.stale = TRUE]
              ELSE rq[r]]
  /\ UNCHANGED <<cfg, requestSem, ocrSem, buckets, window>>

\* one firing of the ticker: limiters = &sync.Map{}
cleanupRateLimiters ==
  /\ \/ \E c \in Clients : limiters[c] # NoReq
     \/ \E r \in Req : rq[r].pc = "rl_store" /\ ~rq[r].stale
  /\ limiters' = [c \in Clients |-> NoReq]
  /\ rq' = [r \in Req |->
              IF rq[r].pc = "rl_store" THEN [rq[r] EXCEPT !.stale = TRUE]
              ELSE rq[r]]
  /\ UNCHANGED <<cfg, requestSem, ocrSem, buckets, window>>

\* The context of a request becomes done (the client goes away, the handler's
\* timeout fires) while the request is at one of the positions at.  A blocked
\* Acquire, download, pdfinfo or Gateway call then answers with its failure
\* outcome and the page loop goes on with failing extractions.
Cancel(r, at) ==
  /\ rq[r].pc \in at
  /\ ~rq[r].cancelled
  /\ rq' = [rq EXCEPT ![r].cancelled = TRUE]
  /\ UNCHANGED <<cfg, requestSem, ocrSem, limiters, buckets, window>>

\* withConcurrencyLimit that lets every request through
withConcurrencyLimitUnbounded(r) ==
  /\ rq[r].pc = "acquire"
  /\ requestSem' = Take(requestSem)
  /\ rq' = [rq EXCEPT ![r].pc = "handler", ![r].holdsReq = TRUE,
                      ![r].trail = Append(@, "slot")]
  /\ UNCHANGED <<cfg, ocrSem, limiters, buckets, window>>

\* withConcurrencyLimit up to requestSem.Acquire(r.Context(), 1): the slot
\* is taken at once when one is free and nobody waits, else the request
\* queues.  When the context is already done the call returns its error.
withConcurrencyLimit(r) ==
  /\ rq[r].pc = "acquire"
  /\ \/ /\ rq' = [rq EXCEPT ![r] = Respond(rq[r], "capacity")]
        /\ UNCHANGED requestSem
     \/ /\ ~rq[r].cancelled
        /\ CanAcquire(requestSem)
        /\ requestSem' = Take(requestSem)
        /\ rq' = [rq EXCEPT ![r].pc = "handler", ![r].holdsReq = TRUE,
                            ![r].trail = Append(@, "slot")]
     \/ /\ ~rq[r].cancelled
        /\ ~CanAcquire(requestSem)
        /\ requestSem' = Enqueue(requestSem, r)
        /\ rq' = [rq EXCEPT ![r].pc = "wait_req"]
  /\ UNCHANGED <<cfg, ocrSem, limiters, buckets, window>>

\* an Acquire that keeps the slot it was handed whatever its context says
ReqReadyKeepsSlot(r) ==
  /\ rq[r].pc = "req_ready"
  /\ rq' = [rq EXCEPT ![r].pc = "handler", ![r].holdsReq = TRUE,
                      ![r].trail = Append(@, "slot")]
  /\ UNCHANGED <<cfg, requestSem, ocrSem, limiters, buckets, window>>

\* A queued request that was handed a slot resumes: defer Release, next().
\* When its context became done as well, Acquire hands the slot back and fails.
ReqReady(r) ==
  /\ rq[r].pc = "req_ready"
  /\ \/ /\ ~rq[r].cancelled
        /\ rq' = [rq EXCEPT ![r].pc = "handler", ![r].holdsReq = TRUE,
                            ![r].trail = Append(@, "slot")]
        /\ UNCHANGED requestSem
     \/ LET s == Release(requestSem) IN
        /\ requestSem' = s
        /\ rq' = Wake([rq EXCEPT ![r] = Respond(rq[r], "capacity")],
                      Granted(requestSem, s), {})
  /\ UNCHANGED <<cfg, ocrSem, limiters, buckets, window>>

\* requestSem.Acquire returns the context's error to a queued request
AbandonReq(r) ==
  /\ rq[r].pc = "wait_req"
  /\ LET s == Abandon(requestSem, r) IN
     /\ requestSem' = s
     /\ rq' = Wake([rq EXCEPT ![r] = Respond(rq[r], "capacity")],
                   Granted(requestSem, s) \ {r}, {})
  /\ UNCHANGED <<cfg, ocrSem, limiters, buckets, window>>

\* ocrSem.Acquire(ctx, 1) of a handler: q is the request once it holds the slot
AcquireOcr(r, q, next) ==
  \/ /\ rq' = [rq EXCEPT ![r] = Respond(q, "ocr_capacity")]
     /\ UNCHANGED ocrSem
  \/ /\ ~q.cancelled
     /\ CanAcquire(ocrSem)
     /\ ocrSem' = Take(ocrSem)
     /\ rq' = [rq EXCEPT ![r] = next]
  \/ /\ ~q.cancelled
     /\ ~CanAcquire(ocrSem)
     /\ ocrSem' = Enqueue(ocrSem, r)
     /\ rq' = [rq EXCEPT ![r] = [q EXCEPT !.pc = "wait_ocr"]]

\* the request as it starts its call of the OCR Gateway
StartCall(q, pages0) ==
  [q EXCEPT !.pc = "ocr_call", !.ocrArg = pages0, !.ocrCalls = @ + 1,
            !.trail = Append(@, "ocrcall")]

HoldOcr(q) == [q EXCEPT !.holdsOcr = TRUE, !.trail = Append(@, "ocrslot")]

\* validation that runs only after the download began
ValidationErrorLate(q, body) ==
  Respond([q EXCEPT !.tmp = TRUE, !.trail = Append(@, "fetch")], body)

\* parseJSON or validateExtractRequest / validateImageRequest returned an error
ValidationError(q, body) == Respond(q, body)

\* downloadPDFToTemp: os.MkdirTemp, then the GET of the document
StartDownload(q, o) ==
  [q EXCEPT !.pc = "download", !.tmp = TRUE, !.reqOptions = o,
            !.opts = parseJSON(o), !.trail = Append(@, "fetch")]

\* handleExtract / handlePreview / handleImageExtract: parseJSON, validate,
\* context.WithTimeout; then the download begins (extract, preview) or the
\* OCR slot is asked for (image).
HandlerStart(r, optionInputs) ==
  /\ rq[r].pc = "handler"
  /\ \E body \in {"bad_request", "validation_failed", "tempdir", "ok"},
        o \in optionInputs :
       IF body \in {"bad_request", "validation_failed"}
       THEN /\ rq' = [rq EXCEPT ![r] = ValidationError(rq[r], body)]
            /\ UNCHANGED ocrSem
       ELSE IF rq[r].kind = "image"
       THEN /\ body = "ok"
            /\ AcquireOcr(r, rq[r], StartCall(HoldOcr(rq[r]), << >>))
       ELSE /\ rq' = [rq EXCEPT ![r] =
                        IF body = "tempdir"
                        THEN Respond(rq[r], "download_failed")
                        ELSE StartDownload(rq[r], o)]
            /\ UNCHANGED ocrSem
  /\ UNCHANGED <<cfg, requestSem, limiters, buckets, window>>

\* processor.ApplyDefaults(req.Options): the defaulting of internal/hybrid
ApplyDefaults(o) == WithDefaults(o)

\* gating that never asks for the OCR slot
NeedsOCRSlotNever(opts) == FALSE

\* if opts.OCRTriggerRatio > 0
NeedsOCRSlot(opts) == opts.OCRTriggerRatio > 0

\* a preview handler with the OCR gating of handleExtract
DownloadDoneGateAll(r) ==
  /\ rq[r].pc = "download"
  /\ \E fetched \in BOOLEAN :
       /\ IF ~fetched
          THEN /\ rq' = [rq EXCEPT ![r] =
                           Respond([rq[r] EXCEPT !.tmp = FALSE], "download_failed")]
               /\ UNCHANGED ocrSem
          ELSE LET q == [rq[r] EXCEPT !.opts = ApplyDefaults(@), !.pc = "hybrid"] IN
               IF NeedsOCRSlot(q.opts)
               THEN AcquireOcr(r, q, HoldOcr(q))
               ELSE /\ rq' = [rq EXCEPT ![r] = q]
                    /\ UNCHANGED ocrSem
  /\ UNCHANGED <<cfg, requestSem, limiters, buckets, window>>

\* downloadPDFToTemp returns; on success ApplyDefaults and the OCR gating
DownloadDone(r) ==
  /\ rq[r].pc = "download"
  /\ \E fetched \in BOOLEAN :
       /\ rq[r].cancelled => ~fetched
       /\ IF ~fetched
          THEN /\ rq' = [rq EXCEPT ![r] =
                           Respond([rq[r] EXCEPT !.tmp = FALSE], "download_failed")]
               /\ UNCHANGED ocrSem
          ELSE LET q == [rq[r] EXCEPT !.opts = ApplyDefaults(@), !.pc = "hybrid"] IN
               IF rq[r].kind = "extract" /\ NeedsOCRSlot(q.opts)
               THEN AcquireOcr(r, q, HoldOcr(q))
               ELSE /\ rq' = [rq EXCEPT ![r] = q]
                    /\ UNCHANGED ocrSem
  /\ UNCHANGED <<cfg, requestSem, limiters, buckets, window>>

\* A queued request that was handed an OCR slot resumes: defer Release
OcrReady(r) ==
  /\ rq[r].pc = "ocr_ready"
  /\ \/ /\ ~rq[r].cancelled
        /\ rq' = [rq EXCEPT ![r] =
                    IF rq[r].kind = "image"
                    THEN StartCall(HoldOcr(rq[r]), << >>)
                    ELSE [HoldOcr(rq[r]) EXCEPT !.pc = "hybrid"]]
        /\ UNCHANGED ocrSem
     \/ LET s == Release(ocrSem) IN
        /\ ocrSem' = s
        /\ rq' = Wake([rq EXCEPT ![r] = Respond(rq[r], "ocr_capacity")],
                      {}, Granted(ocrSem, s))
  /\ UNCHANGED <<cfg, requestSem, limiters, buckets, window>>

\* ocrSem.Acquire returns the context's error to a queued request
AbandonOcr(r) ==
  /\ rq[r].pc = "wait_ocr"
  /\ LET s == Abandon(ocrSem, r) IN
     /\ ocrSem' = s
     /\ rq' = Wake([rq EXCEPT ![r] = Respond(rq[r], "ocr_capacity")],
                   {}, Granted(ocrSem, s) \ {r})
  /\ UNCHANGED <<cfg, requestSem, limiters, buckets, window>>

\* a page count that is not tested: a document without pages gives an empty
\* successful result
HybridStartNoCheck(r, totals) ==
  /\ rq[r].pc = "hybrid"
  /\ \E total \in totals :
       /\ rq' = [rq EXCEPT ![r] =
            IF total <= 0
            THEN Respond([rq[r] EXCEPT
                            !.result = Merge(<< >>, << >>, << >>, 0, WithDefaults(rq[r].opts))],
                         "ok")
            ELSE [rq[r] EXCEPT !.pc = "pages", !.total = total,
                    !.include = PagesToInclude(WithDefaults(rq[r].opts).Pages, total),
                    !.trail = Append(@, "pages")]]
  /\ UNCHANGED <<cfg, requestSem, ocrSem, limiters, buckets, window>>

\* ProcessHybrid / ProcessPreview up to the page loop: extractor.PageCount.
\* total = 0 stands for an error or a non-positive count.
HybridStart(r, totals) ==
  /\ rq[r].pc = "hybrid"
  /\ \E total \in totals :
       /\ rq[r].cancelled => total <= 0
       /\ rq' = [rq EXCEPT ![r] =
            IF total <= 0
            THEN Respond([rq[r] EXCEPT
                            !.result = [fail("page count failed") EXCEPT
                                         !.NeedsOCR = (rq[r].kind = "preview")]],
                         "ok")
            ELSE [rq[r] EXCEPT !.pc = "pages", !.total = total,
                    !.include = PagesToInclude(WithDefaults(rq[r].opts).Pages, total),
                    !.trail = Append(@, "pages")]]
  /\ UNCHANGED <<cfg, requestSem, ocrSem, limiters, buckets, window>>

\* One turn of the page loop: extractor.TextForPage, whose error is dropped
\* and leaves the empty text (it fails when pdftotext fails and whenever the
\* context is done), cleanText and quality.Score.  After the last page the
\* decision is taken and the OCR Gateway called, or the result is built.
\* failed keeps the positions in the selection whose extraction failed.
PageStep(r, texts, errs) ==
  /\ rq[r].pc = "pages"
  /\ \E t \in texts, err \in errs :
       /\ (err \/ rq[r].cancelled) => t = ""
       /\ LET opts == WithDefaults(rq[r].opts)
              q == [rq[r] EXCEPT !.texts = Append(@, t),
                                 !.evals = Append(@, Score(t, opts.MinWordsThreshold)),
                                 !.failed = IF err \/ rq[r].cancelled
                                            THEN @ \cup {Len(rq[r].texts) + 1}
                                            ELSE @]
              ev == Evaluate(q.include, q.texts, opts)
          IN rq' = [rq EXCEPT ![r] =
               IF Len(q.texts) < Len(q.include) THEN q
               ELSE IF q.kind = "preview"
               THEN Respond([q EXCEPT !.result =
                               PreviewResult(q.include, q.texts, opts, q.total)],
                            "ok")
               ELSE IF Len(ev.pagesForOCR0) > 0
               THEN StartCall(q, ev.pagesForOCR0)
               ELSE Respond([q EXCEPT
                               !.result = Merge(q.include, q.texts, << >>, q.total, opts),
                               !.trail = Append(@, "combine")],
                            "ok")]
  /\ UNCHANGED <<cfg, requestSem, ocrSem, limiters, buckets, window>>

\* a Gateway call that is issued again after a failure
OcrDoneRetry(r, responses) ==
  /\ rq[r].pc = "ocr_call"
  /\ \E resp \in responses, succeeded \in BOOLEAN :
       rq' = [rq EXCEPT ![r] =
            IF ~succeeded THEN StartCall(rq[r], rq[r].ocrArg)
            ELSE Respond([rq[r] EXCEPT
                            !.result = Merge(rq[r].include, rq[r].texts, resp, rq[r].total,
                                              WithDefaults(rq[r].opts)),
                            !.trail = Append(@, "combine")],
                         "ok")]
  /\ UNCHANGED <<cfg, requestSem, ocrSem, limiters, buckets, window>>

\* a failed Gateway call answered with the text-layer pages read so far
OcrDonePartial(r, responses) ==
  /\ rq[r].pc = "ocr_call"
  /\ \E resp \in responses, succeeded \in BOOLEAN :
       rq' = [rq EXCEPT ![r] =
            Respond([rq[r] EXCEPT
                       !.result = [Merge(rq[r].include, rq[r].texts,
                                         IF succeeded THEN resp ELSE << >>,
                                         rq[r].total, WithDefaults(rq[r].opts))
                                   EXCEPT !.Success = succeeded,
                                          !.Error = IF succeeded THEN "" ELSE "ocr failed"],
                       !.ocrErr = ~succeeded,
                       !.trail = Append(@, "combine")],
                    "ok")]
  /\ UNCHANGED <<cfg, requestSem, ocrSem, limiters, buckets, window>>

\* a Gateway call that is not bound to the request's context
OcrDoneDetached(r, responses) ==
  /\ rq[r].pc = "ocr_call"
  /\ \E resp \in responses, succeeded \in BOOLEAN :
       rq' = [rq EXCEPT ![r] =
            IF ~succeeded
            THEN Respond([rq[r] EXCEPT !.result = fail("ocr failed"),
                                       !.ocrErr = TRUE], "ok")
            ELSE Respond([rq[r] EXCEPT
                            !.result = Merge(rq[r].include, rq[r].texts, resp, rq[r].total,
                                              WithDefaults(rq[r].opts)),
                            !.ocrResp = resp,
                            !.trail = Append(@, "combine")],
                         "ok")]
  /\ UNCHANGED <<cfg, requestSem, ocrSem, limiters, buckets, window>>

\* ocr.RunMistralOCR / RunMistralImageOCR returns: an error, or a response
\* mapping zero-based page indices to markdown
OcrDone(r, responses) ==
  /\ rq[r].pc = "ocr_call"
  /\ \E resp \in responses, succeeded \in BOOLEAN :
       /\ rq[r].cancelled => ~succeeded
       /\ rq' = [rq EXCEPT ![r] =
            IF ~succeeded
            THEN Respond([rq[r] EXCEPT !.result = fail("ocr failed"),
                                       !.ocrErr = TRUE], "ok")
            ELSE IF rq[r].kind = "image"
            THEN Respond([rq[r] EXCEPT
                            !.result = IF DOMAIN resp # {} THEN [fail("") EXCEPT !.Success = TRUE]
                                       ELSE fail("no content extracted from image")],
                         "ok")
            ELSE Respond([rq[r] EXCEPT
                            !.result = Merge(rq[r].include, rq[r].texts, resp, rq[r].total,
                                              WithDefaults(rq[r].opts)),
                            !.ocrResp = resp,
                            !.trail = Append(@, "combine")],
                         "ok")]
  /\ UNCHANGED <<cfg, requestSem, ocrSem, limiters, buckets, window>>

\* deferred calls that miss the release of the OCR slot
RunDeferredLeak(r, q) ==
  LET s == IF rq[r].holdsReq THEN Release(requestSem) ELSE requestSem
  IN /\ UNCHANGED ocrSem
     /\ requestSem' = s
     /\ rq' = Wake([rq EXCEPT ![r] = [NewRequest EXCEPT !.pc = "done", !.tmp = q.tmp]],
                   Granted(requestSem, s), {})

\* The deferred calls of the handler chain, last registered first:
\* ocrSem.Release, cleanup, cancel, metrics.decActive, requestSem.Release
RunDeferred(r, q) ==
  LET o == IF rq[r].holdsOcr THEN Release(ocrSem) ELSE ocrSem
      s == IF rq[r].holdsReq THEN Release(requestSem) ELSE requestSem
  IN /\ ocrSem' = o
     /\ requestSem' = s
     /\ rq' = Wake([rq EXCEPT ![r] = [NewRequest EXCEPT !.pc = "done", !.tmp = q.tmp]],
                   Granted(requestSem, s), Granted(ocrSem, o))

\* the handler returns
Unwind(r) ==
  /\ rq[r].pc = "unwind"
  /\ RunDeferred(r, [rq[r] EXCEPT !.tmp = FALSE])
  /\ UNCHANGED <<cfg, limiters, buckets, window>>

\* A panic inside the processor: the deferred calls run, withRecovery answers
Panic(r) ==
  /\ rq[r].pc \in {"pages", "ocr_call"}
  /\ RunDeferred(r, [rq[r] EXCEPT !.tmp = FALSE])
  /\ UNCHANGED <<cfg, limiters, buckets, window>>

\* --------------------------------------------------------- specifications
NoResponse == [i \in {} |-> ""]

\* Gateway responses over the indices 0..MaxPages (MaxPages lies past the
\* last page of every document)
Responses == UNION {[idx -> {"", "md"}] : idx \in SUBSET (0..MaxPages)}

\* request bodies: the "options" objects a scenario sends
Options(ratios, minWords, pageLists, numbers) ==
  [MinWordsThreshold : minWords, OCRTriggerRatio : ratios,
   IncludePageNumbers : numbers, Pages : pageLists]

\* The steps of the handler chains of the requests R of a scenario, with
\* the inputs they draw from
Handlers(R, in) ==
  \/ \E r \in R : Arrive(r, in.clients[r], in.kinds)
  \/ \E r \in R : RlStore(r)
  \/ \E r \in R : RlAllow(r)
  \/ \E r \in R : withConcurrencyLimit(r)
  \/ \E r \in R : HandlerStart(r, in.options)
  \/ \E r \in R : DownloadDone(r)
  \/ \E r \in R : HybridStart(r, in.totals)
  \/ \E r \in R : PageStep(r, in.texts, in.readErrors)
  \/ \E r \in R : OcrDone(r, in.responses)
  \/ \E r \in R : Unwind(r)

\* what befalls a request from outside its own code: its context becomes
\* done, the processor panics
Faults(R, in) ==
  \/ \E r \in R : Cancel(r, in.cancelAt)
  \/ \E r \in R : Panic(r)

Pipeline(R, in) == Handlers(R, in) \/ Faults(R, in)

Waits(R) ==
  \/ \E r \in R : ReqReady(r)
  \/ \E r \in R : AbandonReq(r)
  \/ \E r \in R : OcrReady(r)
  \/ \E r \in R : AbandonOcr(r)

FlowInputs ==
  [cancelAt |-> {"pages"},
   clients |-> [r \in Req |-> {r}], kinds |-> Kinds,
   options |-> Options({-50, 0}, {0}, {<< >>}, {"omitted"}),
   readErrors |-> {FALSE},
   totals |-> {0, 1}, texts |-> {"", "prose"},
   responses |-> {NoResponse, [i \in {0} |-> "md"]}]

Next == Pipeline(Req, FlowInputs) \/ Waits(Req)

Spec == Init /\ [][Next]_vars

\* The rate limiter under load of one client, with the refill clock and the
\* background cleanup
RateInputs ==
  [cancelAt |-> {"pages"},
   clients |-> [r \in Req |-> {1}], kinds |-> {"extract"},
   options |-> Options({0}, {0}, {<< >>}, {"omitted"}),
   readErrors |-> {FALSE},
   totals |-> {0, 1}, texts |-> {""},
   responses |-> {NoResponse}]

NextRate ==
  Pipeline({1, 2}, RateInputs) \/ Waits({1, 2}) \/ Tick \/ cleanupRateLimiters

SpecRate == Init /\ [][NextRate]_vars

\* One extraction with documents of up to MaxPages pages, page subsets,
\* every option value and every Gateway response
HybridInputs ==
  [cancelAt |-> {"pages"},
   clients |-> [r \in Req |-> {r}], kinds |-> {"extract", "preview"},
   options |-> Options({-50, 0, 25, 50, 100}, {-5, 0, 20},
                       {<< >>, <<1>>, <<2, 1, 2>>, <<MaxPages + 7>>, <<2, 0>>},
                       {"omitted"}),
   readErrors |-> BOOLEAN,
   totals |-> 0..MaxPages, texts |-> Texts,
   responses |-> Responses]

NextHybrid == Pipeline({1}, HybridInputs)

SpecHybrid == Init /\ [][NextHybrid]_vars

\* One extraction of a document of up to MergePages pages whose pages have an
\* empty or a good text layer; the Gateway answers for any subset of pages
MergeResponses ==
  UNION {[idx -> {"md"}] : idx \in SUBSET (0..(MergePages - 1))}

MergeInputs ==
  [cancelAt |-> {"pages"},
   clients |-> [r \in Req |-> {r}], kinds |-> {"extract"},
   options |-> Options({100}, {0}, {<< >>}, {"omitted", "false", "true"}),
   readErrors |-> {FALSE},
   totals |-> 0..MergePages, texts |-> {"", "prose"},
   responses |-> MergeResponses]

NextMerge == Pipeline({1}, MergeInputs)

SpecMerge == Init /\ [][NextMerge]_vars

\* A preview and an extraction side by side on two-page documents
PairInputs ==
  [cancelAt |-> {"pages"},
   clients |-> [r \in Req |-> {r}], kinds |-> {"extract", "preview"},
   options |-> Options({25, 50}, {0}, {<< >>}, {"omitted"}),
   readErrors |-> {FALSE},
   totals |-> {2}, texts |-> {"", "prose"},
   responses |-> {NoResponse}]

NextPair == Pipeline({1, 2}, PairInputs) \/ Waits({1, 2})

SpecPair == Init /\ [][NextPair]_vars

\* Two requests whose context may become done at every point from the request
\* pool's Acquire to the end of the processing
Blocking == {"acquire", "wait_req", "req_ready", "handler", "download",
             "wait_ocr", "ocr_ready", "hybrid", "pages", "ocr_call"}

CancelInputs ==
  [cancelAt |-> Blocking, clients |-> [r \in Req |-> {r}],
   kinds |-> {"extract", "image"},
   options |-> Options({0}, {0}, {<< >>}, {"omitted"}),
   readErrors |-> {FALSE},
   totals |-> {0, 1}, texts |-> {"", "prose"},
   responses |-> {NoResponse, [i \in {0} |-> "md"]}]

NextCancel == Pipeline({1, 2}, CancelInputs) \/ Waits({1, 2})

\* The Go scheduler runs every runnable goroutine, and every blocking call
\* (download, pdfinfo, pdftotext, Gateway) returns.  A goroutine queued in
\* Acquire runs again when it is handed a slot or when its context is done.
Scheduling(R, in) ==
  \A r \in R :
    /\ WF_vars(Handlers({r}, in))
    /\ WF_vars(ReqReady(r))
    /\ WF_vars(OcrReady(r))
    /\ WF_vars(AbandonReq(r) /\ rq[r].cancelled)
    /\ WF_vars(AbandonOcr(r) /\ rq[r].cancelled)

SpecCancel ==
  Init /\ [][NextCancel]_vars /\ Scheduling({1, 2}, CancelInputs)

\* a step request r takes by itself in that scenario: it runs its handler
\* chain or resumes from an Acquire that handed it a slot
Runs(r) == Handlers({r}, CancelInputs) \/ ReqReady(r) \/ OcrReady(r)

\* ------------------------------------------------------------- properties
\* Requests past withConcurrencyLimit's Acquire that have not returned
InFlight ==
  {r \in Req :
     \/ rq[r].pc \in {"req_ready", "handler", "download", "wait_ocr",
                      "ocr_ready", "hybrid", "pages", "ocr_call"}
     \/ rq[r].pc = "unwind" /\ rq[r].code # "capacity"}

InCall == {r \in Req : rq[r].pc = "ocr_call"}

ReqHolders == {r \in Req : rq[r].holdsReq \/ rq[r].pc = "req_ready"}

OcrHolders == {r \in Req : rq[r].holdsOcr \/ rq[r].pc = "ocr_ready"}

\* the selected pages the Scorer flags needsOCR, from the texts read so far
Flagged(q) ==
  {q.include[i] : i \in {j \in DOMAIN q.texts :
       Score(q.texts[j], WithDefaults(q.opts).MinWordsThreshold).NeedsOCR}}

Ascending(s) == \A i \in 1..(Len(s) - 1) : s[i] < s[i + 1]

\* C1: in every reachable state the requests that hold a request-pool slot
\* (past withConcurrencyLimit, not yet returned) number at most
\* MaxConcurrentRequests.
C1_RequestPoolBound == Cardinality(InFlight) <= cfg.MaxConcurrentRequests

C1_Witness ==
  /\ cfg.MaxConcurrentRequests = 2
  /\ \E a, b, c \in Req :
       /\ {a, b} = InFlight /\ a # b
       /\ rq[a].kind = "extract" /\ rq[b].kind = "image"
       /\ rq[c].pc = "wait_req" /\ rq[c].kind = "preview"

\* C2: every OCR Gateway call in progress is made by a request that holds an
\* OCR-pool slot, so the calls in progress never exceed MaxOCRConcurrent
\* (stated as the claim has it; a negative ocrTriggerRatio refutes it).
C2_OcrCallsWithinPool ==
  /\ Cardinality(InCall) <= cfg.MaxOCRConcurrent
  /\ \A r \in InCall : rq[r].holdsOcr

\* C3: every slot taken from either pool is released exactly once by its
\* owner on every exit path: each pool's count equals the number of requests
\* that hold a lease of it (never negative), a finished request holds none,
\* and once all requests are done both pools are at full capacity.
C3_LeasesPaired ==
  /\ requestSem.cur = Cardinality(ReqHolders)
  /\ ocrSem.cur = Cardinality(OcrHolders)
  /\ \A r \in Req : rq[r].pc \in {"idle", "done"} =>
                      ~rq[r].holdsReq /\ ~rq[r].holdsOcr
  /\ (\A r \in Req : rq[r].pc = "done") =>
       /\ requestSem.cur = 0 /\ requestSem.waiters = << >>
       /\ ocrSem.cur = 0 /\ ocrSem.waiters = << >>

\* a finished request has handed its OCR slot to a queued one
C3_Witness ==
  \E a, b \in Req :
    /\ rq[a].pc = "done" /\ rq[b].pc = "ocr_ready"
    /\ ocrSem.cur = cfg.MaxOCRConcurrent
    /\ \A r \in Req \ {b} : ~rq[r].holdsOcr

\* C4: once the request pool is saturated a new request fails fast with a
\* capacity error; it never waits for a slot (stated as the claim has it).
C4_NoQueuing == \A r \in Req : rq[r].pc # "wait_req"

\* C5: from a saturated request pool one released lease lets exactly one
\* more acquisition succeed: a step that frees a slot hands it to one waiter
\* (the first), every other acquirer stays without a slot, and no step
\* admits more requests than it frees leases.
C5_OneReleaseOneAcquire ==
  [][Cardinality(InFlight) = cfg.MaxConcurrentRequests =>
       /\ Cardinality(InFlight \ InFlight') <= 1
       /\ Cardinality(InFlight' \ InFlight) <= Cardinality(InFlight \ InFlight')
       /\ (InFlight \ InFlight' # {} /\ requestSem.waiters # << >>) =>
            InFlight' \ InFlight = {Head(requestSem.waiters)}]_vars

\* one of two waiters got the freed slot, the other still waits
C5_Witness ==
  /\ cfg.MaxConcurrentRequests = 1
  /\ \E a, b, c \in Req :
       /\ rq[a].pc = "done" /\ rq[b].pc = "req_ready" /\ rq[c].pc = "wait_req"
       /\ InFlight = {b}

Reported(r, codes) == rq[r].pc = "unwind" /\ rq[r].code \in codes

Started(r, what) == what \in Range(rq[r].trail)

\* C6 as claimed: when a validation or capacity error (capacity or
\* ocr_capacity) is reported, the request has no temp storage and has begun
\* neither the download nor the page loop.
C6_ErrorsBeforeResources ==
  \A r \in Req :
    Reported(r, {"bad_request", "validation_failed", "capacity", "ocr_capacity"})
      => ~rq[r].tmp /\ ~Started(r, "fetch") /\ ~Started(r, "pages")

\* C6 amended: validation errors and the general capacity error are reported
\* before temp storage, download or page loop; ocr_capacity is reported
\* before the page loop, for an image request before any temp storage, and
\* for an extract request after the temp storage was made and the document
\* downloaded.
C6_ErrorsBeforePageLoop ==
  \A r \in Req :
    /\ Reported(r, {"bad_request", "validation_failed", "capacity"})
         => ~rq[r].tmp /\ ~Started(r, "fetch") /\ ~Started(r, "pages")
    /\ Reported(r, {"ocr_capacity"}) =>
         /\ ~Started(r, "pages")
         /\ rq[r].kind = "image" => ~rq[r].tmp /\ ~Started(r, "fetch")
         /\ rq[r].kind = "extract" => rq[r].tmp /\ Started(r, "fetch")

C6_Witness ==
  \E r \in Req : /\ Reported(r, {"ocr_capacity"})
                 /\ rq[r].kind = "extract" /\ rq[r].tmp

\* C7: an extract request whose defaulted ocrTriggerRatio is positive holds
\* an OCR slot from before ProcessHybrid starts until it has returned, also
\* when no page is flagged and no Gateway call is made; whether the slot is
\* taken depends on the options alone.
C7_SlotHeldThroughout ==
  \A r \in Req :
    rq[r].kind = "extract" =>
      /\ (rq[r].pc \in {"hybrid", "pages", "ocr_call"} \/ Reported(r, {"ok"}))
           => (rq[r].holdsOcr <=> rq[r].opts.OCRTriggerRatio > 0)
      /\ rq[r].pc \in {"wait_ocr", "ocr_ready"}
           => rq[r].opts.OCRTriggerRatio > 0 /\ ~Started(r, "pages")

C7_Witness ==
  \E r \in Req :
    /\ rq[r].kind = "extract" /\ Reported(r, {"ok"}) /\ rq[r].result.Success
    /\ Started(r, "pages") /\ Flagged(rq[r]) = {}
    /\ rq[r].ocrCalls = 0 /\ rq[r].holdsOcr

\* C8: within a window in which no token is replenished at most burst
\* requests of one client key are allowed (stated as the claim has it).
C8_BurstPerWindow == \A c \in Clients : window[c] <= cfg.RateLimitBurst

\* C9: the page argument of ProcessHybrid's OCR call is the zero-indexed
\* flagged pages F when |F|/|S| <= ocrTriggerRatio, the zero-indexed selected
\* pages S when |F|/|S| > ocrTriggerRatio, and ascending without duplicates.
C9_DecisionPolicy ==
  \A r \in Req :
    rq[r].pc = "ocr_call" /\ rq[r].kind = "extract" =>
      LET S == Range(rq[r].include)
          F == Flagged(rq[r])
          trigger == rq[r].opts.OCRTriggerRatio
          arg == rq[r].ocrArg
      IN /\ Ascending(arg)
         /\ Cardinality(F) * 100 <= trigger * Cardinality(S)
              => F # {} /\ Range(arg) = {p - 1 : p \in F}
         /\ Cardinality(F) * 100 > trigger * Cardinality(S)
              => Range(arg) = {p - 1 : p \in S}

\* the ratio is exceeded and unflagged pages go to OCR with the flagged ones
C9_Witness ==
  \E r \in Req :
    /\ rq[r].pc = "ocr_call" /\ rq[r].kind = "extract"
    /\ Cardinality(Flagged(rq[r])) = 1 /\ Len(rq[r].include) = 2
    /\ rq[r].opts.OCRTriggerRatio = 25
    /\ rq[r].ocrArg = <<0, 1>>

\* C10: one ProcessHybrid invocation calls the OCR Gateway once when a
\* selected page is flagged needsOCR and not at all when none is; never
\* twice, and a failed call is not retried.
C10_OneCall ==
  \A r \in Req :
    rq[r].kind = "extract" =>
      /\ rq[r].ocrCalls <= 1
      /\ rq[r].pc = "ocr_call" => rq[r].ocrCalls = 1 /\ Flagged(rq[r]) # {}
      /\ (Reported(r, {"ok"}) /\ Started(r, "pages"))
           => rq[r].ocrCalls = (IF Flagged(rq[r]) # {} THEN 1 ELSE 0)

\* the single call failed and the failure is the answer
C10_Witness ==
  \E r \in Req :
    /\ rq[r].kind = "extract" /\ Reported(r, {"ok"}) /\ Started(r, "pages")
    /\ ~rq[r].result.Success /\ rq[r].ocrCalls = 1

\* C11: when the OCR Gateway call of ProcessHybrid fails, the result is a
\* failure (success false, an error message) with no pages, no combined
\* text and all page counts zero; the text-layer pages already evaluated do
\* not appear in it.
C11_FailedCallFailsAll ==
  \A r \in Req :
    (rq[r].kind = "extract" /\ Reported(r, {"ok"}) /\ rq[r].ocrErr) =>
      /\ ~rq[r].result.Success /\ rq[r].result.Error # ""
      /\ rq[r].result.Pages = << >> /\ rq[r].result.Text = << >>
      /\ rq[r].result.TotalPages = 0 /\ rq[r].result.TextLayerPages = 0
      /\ rq[r].result.OCRPages = 0 /\ rq[r].result.CostSavingsPercent = 0

\* the call failed after a page with a good text layer had been evaluated
C11_Witness ==
  \E r \in Req :
    /\ rq[r].kind = "extract" /\ Reported(r, {"ok"}) /\ rq[r].ocrErr
    /\ Len(rq[r].texts) = 2 /\ "prose" \in Range(rq[r].texts)
    /\ rq[r].result.Pages = << >>

\* the selection the options ask for on a document of total pages
Selected(pages, total) ==
  LET asked == Range(pages) \cap (1..total)
  IN IF asked = {} THEN 1..total ELSE asked

PageNumbers(result) == [i \in DOMAIN result.Pages |-> result.Pages[i].PageNumber]

\* C12: every successful result of ProcessHybrid has textLayerPages +
\* ocrPages = len(pages), holds each selected page exactly once and lists
\* the page numbers in strictly ascending order, whatever the requested
\* page list (unsorted, repeated, out of range) and the Gateway response.
C12_ResultPages ==
  \A r \in Req :
    (rq[r].kind = "extract" /\ Reported(r, {"ok"}) /\ rq[r].result.Success) =>
      LET res == rq[r].result IN
      /\ res.TextLayerPages + res.OCRPages = Len(res.Pages)
      /\ res.TextLayerPages >= 0 /\ res.OCRPages >= 0
      /\ Ascending(PageNumbers(res))
      /\ Range(PageNumbers(res)) = Selected(rq[r].opts.Pages, rq[r].total)

\* an unsorted list with a repetition gives pages 1 and 2, one of them by OCR
C12_Witness ==
  \E r \in Req :
    /\ rq[r].kind = "extract" /\ Reported(r, {"ok"}) /\ rq[r].result.Success
    /\ rq[r].opts.Pages = <<2, 1, 2>>
    /\ PageNumbers(rq[r].result) = <<1, 2>>
    /\ rq[r].result.OCRPages = 1 /\ rq[r].result.TextLayerPages = 1

\* C13: for every requested list and every page count > 0 the selection is
\* the ascending, duplicate-free list of the requested values within
\* 1..total, and all pages 1..total when there is no such value (nothing
\* requested, or only values out of range).
C13_Normalization ==
  \A r \in Req :
    rq[r].pc \in {"pages", "ocr_call"} =>
      LET asked == {n \in Range(rq[r].opts.Pages) : n >= 1 /\ n <= rq[r].total} IN
      /\ rq[r].total > 0
      /\ Ascending(rq[r].include)
      /\ asked # {} => Range(rq[r].include) = asked
      /\ asked = {} => rq[r].include = [i \in 1..rq[r].total |-> i]

\* only an out-of-range page was requested: the whole document is selected
C13_Witness ==
  \E r \in Req :
    /\ rq[r].pc = "pages" /\ rq[r].opts.Pages = <<MaxPages + 7>>
    /\ rq[r].total = 2 /\ rq[r].include = <<1, 2>>

\* C14: every successful result with n = len(pages) > 0 and k = ocrPages has
\* costSavingsPercent = round((1 - k/n) * 100), which is 100 for k = 0 and 0
\* for k = n (stated as the claim has it).
C14_SavingsRounded ==
  \A r \in Req :
    (rq[r].kind = "extract" /\ Reported(r, {"ok"}) /\ rq[r].result.Success
       /\ Len(rq[r].result.Pages) > 0) =>
      LET n == Len(rq[r].result.Pages)
          k == rq[r].result.OCRPages
      IN \* (n - k) * 100 / n rounded to the nearest integer
         rq[r].result.CostSavingsPercent = ((n - k) * 200 + n) \div (2 * n)

\* an extraction that answered after a Gateway call that succeeded
CallSucceeded(r) ==
  /\ rq[r].kind = "extract" /\ Reported(r, {"ok"})
  /\ rq[r].ocrCalls = 1 /\ ~rq[r].ocrErr

\* the selected pages the response has non-blank markdown for
Answered(q) ==
  {p \in Range(q.include) : p - 1 \in DOMAIN q.ocrResp /\ q.ocrResp[p - 1] # ""}

\* C15 as claimed: whenever the OCR call succeeds, ocrPages is the length of
\* the call's page list and textLayerPages the number of the other selected
\* pages.
C15_OcrPagesAsListed ==
  \A r \in Req :
    CallSucceeded(r) =>
      /\ rq[r].result.OCRPages = Len(rq[r].ocrArg)
      /\ rq[r].result.TextLayerPages = Len(rq[r].include) - Len(rq[r].ocrArg)

\* C15 amended: whenever the OCR call succeeds, ocrPages is the number of
\* selected pages the response holds non-blank markdown for and
\* textLayerPages the number of the other selected pages; when these are
\* exactly the pages of the call's list, ocrPages is the length of the list,
\* and if moreover ocrRatio > ocrTriggerRatio, ocrPages is the number of
\* selected pages and costSavingsPercent is 0.
C15_OcrPagesAnswered ==
  \A r \in Req :
    CallSucceeded(r) =>
      LET got == Answered(rq[r])
          listed == {i + 1 : i \in Range(rq[r].ocrArg)}
          S == Range(rq[r].include)
          res == rq[r].result
      IN /\ res.OCRPages = Cardinality(got)
         /\ res.TextLayerPages = Cardinality(S \ got)
         /\ got = listed => res.OCRPages = Len(rq[r].ocrArg)
         /\ (got = listed /\ Cardinality(Flagged(rq[r])) * 100
                               > rq[r].opts.OCRTriggerRatio * Cardinality(S))
              => res.OCRPages = Cardinality(S) /\ res.CostSavingsPercent = 0

\* one flagged page of two exceeds the ratio; both pages come back from OCR
C15_Witness ==
  \E r \in Req :
    /\ CallSucceeded(r) /\ rq[r].opts.OCRTriggerRatio = 25
    /\ Cardinality(Flagged(rq[r])) = 1 /\ rq[r].ocrArg = <<0, 1>>
    /\ Answered(rq[r]) = {1, 2}
    /\ rq[r].result.OCRPages = 2 /\ rq[r].result.CostSavingsPercent = 0

\* the Decisions the page loop has collected, over all requests
Decisions == UNION {Range(rq[r].evals) : r \in Req}

\* C16 as claimed: needsOCR iff the clamped score is < 0.50, maybeOCR iff
\* 0.50 <= score < 0.70, and the score lies within [0, 1].
C16_BandsAtHalf ==
  \A d \in Decisions :
    /\ d.Quality >= 0 /\ d.Quality <= 100
    /\ d.NeedsOCR <=> d.Quality < 50
    /\ d.MaybeOCR <=> (d.Quality >= 50 /\ d.Quality < 70)

\* C16 amended: needsOCR iff the clamped score is < 0.55, maybeOCR iff
\* 0.55 <= score < 0.70, never both, and the score lies within [0, 1].
C16_Bands ==
  \A d \in Decisions :
    /\ d.Quality >= 0 /\ d.Quality <= 100
    /\ d.NeedsOCR <=> d.Quality < 55
    /\ d.MaybeOCR <=> (d.Quality >= 55 /\ d.Quality < 70)
    /\ ~(d.NeedsOCR /\ d.MaybeOCR)

\* one document with a page scored 0.50 (flagged) and one scored 0.55 (maybe)
C16_Witness ==
  \E r \in Req :
    /\ \E d \in Range(rq[r].evals) : d.Quality = 50 /\ d.NeedsOCR /\ ~d.MaybeOCR
    /\ \E d \in Range(rq[r].evals) : d.Quality = 55 /\ d.MaybeOCR /\ ~d.NeedsOCR

\* C17: for every threshold the Score of a text without words is 0 with
\* needsOCR true (stated as the claim has it).
C17_EmptyTextScoresZero ==
  \A r \in Req : \A i \in DOMAIN rq[r].evals :
    rq[r].texts[i] = "" =>
      /\ rq[r].evals[i].WordCount = 0
      /\ rq[r].evals[i].Quality = 0
      /\ rq[r].evals[i].NeedsOCR

\* C18: a preview request never calls the OCR Gateway and never asks for or
\* holds an OCR-pool slot, whatever its options and page evaluations.
C18_PreviewWithoutOcr ==
  \A r \in Req :
    rq[r].kind = "preview" =>
      /\ rq[r].ocrCalls = 0 /\ ~rq[r].holdsOcr
      /\ rq[r].pc \notin {"wait_ocr", "ocr_ready", "ocr_call"}
      /\ ~Started(r, "ocrslot") /\ ~Started(r, "ocrcall")
      /\ \A i \in DOMAIN ocrSem.waiters : ocrSem.waiters[i] # r

\* a preview that found its page in need of OCR answered without slot or call
C18_Witness ==
  \E r \in Req :
    /\ rq[r].kind = "preview" /\ Reported(r, {"ok"})
    /\ rq[r].result.Success /\ rq[r].result.NeedsOCR
    /\ Flagged(rq[r]) # {}
    /\ rq[r].ocrCalls = 0 /\ ~rq[r].holdsOcr /\ ~Started(r, "ocrslot")

\* a is a preview that answered and b an extraction past its page loop, of
\* the same document with the same options
SameDocument(a, b) ==
  /\ rq[a].kind = "preview" /\ Reported(a, {"ok"}) /\ rq[a].result.Success
  /\ rq[b].kind = "extract"
  /\ rq[b].pc = "ocr_call" \/ (Reported(b, {"ok"}) /\ Started(b, "pages"))
  /\ rq[a].opts = rq[b].opts /\ rq[a].total = rq[b].total
  /\ rq[a].include = rq[b].include /\ rq[a].texts = rq[b].texts

NoPageCount(r) ==
  /\ rq[r].kind \in {"extract", "preview"}
  /\ Reported(r, {"ok"}) /\ rq[r].total <= 0

\* C20: when the page count fails or is not positive, ProcessHybrid and
\* ProcessPreview return a failure result at once: no page text was
\* fetched, no page scored, no OCR call made, and the result has no pages.
C20_NoPageCountFails ==
  \A r \in Req :
    NoPageCount(r) =>
      /\ ~rq[r].result.Success /\ rq[r].result.Error # ""
      /\ rq[r].texts = << >> /\ rq[r].evals = << >>
      /\ rq[r].ocrCalls = 0 /\ ~Started(r, "ocrcall") /\ ~Started(r, "pages")
      /\ rq[r].result.Pages = << >> /\ rq[r].result.Text = << >>

\* an extraction of page 1, or a preview, failed on the page count
C20_Witness ==
  \E r \in Req :
    /\ NoPageCount(r) /\ ~rq[r].result.Success
    /\ \/ rq[r].kind = "extract" /\ rq[r].opts.Pages = <<1>>
       \/ rq[r].kind = "preview" /\ rq[r].result.NeedsOCR

\* an extraction that answered with a successful result
Extracted(r) ==
  rq[r].kind = "extract" /\ Reported(r, {"ok"}) /\ rq[r].result.Success

\* C21: includePageNumbers is honoured: the option the combine step sees is
\* true when the request omits it and equals the caller's choice when the
\* request names it; with false the combined text has no page marker, else
\* every chunk carries the marker of its page (stated as the claim has it).
C21_NumbersHonoured ==
  \A r \in Req :
    Extracted(r) =>
      LET asked == rq[r].reqOptions.IncludePageNumbers
          seen == WithDefaults(rq[r].opts).IncludePageNumbers
          text == rq[r].result.Text
      IN /\ seen = (asked # "false")
         /\ \A i \in DOMAIN text :
              text[i].marker # 0 <=> asked # "false"

\* r is on the waiter queue of the semaphore s
Queued(s, r) == \E i \in DOMAIN s.waiters : s.waiters[i] = r

\* C22: a request whose context becomes done while it is blocked in the
\* Acquire of the request or the OCR pool, or while it is processing,
\* eventually terminates; a terminated request holds no slot of either pool
\* and is on no waiter queue; and a request whose context is done while it
\* waits for a slot never comes to own that slot.
C22_CancelledTerminates ==
  /\ \A r \in Req : rq[r].cancelled ~> rq[r].pc = "done"
  /\ [](\A r \in Req :
          rq[r].pc = "done" =>
            /\ ~rq[r].holdsReq /\ ~rq[r].holdsOcr
            /\ ~Queued(requestSem, r) /\ ~Queued(ocrSem, r)
            /\ requestSem.cur = Cardinality(ReqHolders)
            /\ ocrSem.cur = Cardinality(OcrHolders))
  /\ [][\A r \in Req :
          /\ (rq[r].cancelled /\ rq[r].pc \in {"wait_req", "req_ready"})
               => ~rq'[r].holdsReq /\ rq'[r].pc \in {"wait_req", "req_ready", "unwind"}
          /\ (rq[r].cancelled /\ rq[r].pc \in {"wait_ocr", "ocr_ready"})
               => ~rq'[r].holdsOcr /\ rq'[r].pc \in {"wait_ocr", "ocr_ready", "unwind"}]_vars

\* a request whose context became done at the Acquire of the full request
\* pool has answered "capacity" without a slot; the other one still runs
C22_Witness ==
  \E a, b \in Req :
    /\ rq[a].cancelled /\ Reported(a, {"capacity"}) /\ ~rq[a].holdsReq
    /\ rq[b].holdsReq /\ InFlight = {b}
    /\ requestSem.cur = 1 /\ cfg.MaxConcurrentRequests = 1

\* C23: between two registry resets one token bucket is created per client
\* key and every request of the key is checked against it: a request that
\* creates a bucket (no reset since its lookup) does so only when the
\* registry holds none for its key, and the bucket it goes on to check is the
\* one the registry holds (stated as the claim has it).
C23_OneBucketPerKey ==
  [][\A r \in Req :
       (rq[r].pc = "rl_store" /\ ~rq[r].stale /\ rq'[r].pc = "rl_allow") =>
         /\ limiters[rq[r].client] = NoReq
         /\ limiters'[rq[r].client] = rq'[r].lim]_vars

\* a step of the background cleanup: no request moves and no bucket changes
CleanupFires ==
  /\ \A r \in Req : rq'[r].pc = rq[r].pc /\ rq'[r].cancelled = rq[r].cancelled
  /\ buckets' = buckets /\ window' = window

\* C24: each firing of the cleanup discards the whole registry: right after
\* it no client key has a limiter; a request that then finds none for its
\* key creates a bucket with the full burst and is checked against that one,
\* also when the client had just used up its burst.
C24_CleanupDiscardsAll ==
  [][/\ CleanupFires => \A c \in Clients : limiters'[c] = NoReq
     /\ \A r \in Req :
          /\ (rq[r].pc = "idle" /\ rq'[r].pc \in {"rl_store", "rl_allow"}) =>
               (rq'[r].pc = "rl_store" <=> limiters[rq'[r].client] = NoReq)
          /\ (rq[r].pc = "rl_store" /\ rq'[r].pc = "rl_allow") =>
               rq'[r].lim = r /\ buckets'[r] = cfg.RateLimitBurst]_vars

\* a client used up its burst and no token was replenished; the cleanup
\* fired (the registry is empty although a limiter was made), and the
\* client's next request, which looked up after it, found no limiter
C24_Witness ==
  \E a, b \in Req :
    /\ a # b /\ buckets[a] = 0 /\ window[rq[b].client] = cfg.RateLimitBurst
    /\ \A c \in Clients : limiters[c] = NoReq
    /\ rq[b].pc = "rl_store" /\ ~rq[b].stale /\ buckets[b] = -1

\* C25: in a successful result every selected page, in order, has method
\* "ocr" and the Gateway's markdown iff the response holds markdown for it
\* (response index + 1) that is not blank, and else method "text-layer" and
\* its text-layer text; response entries of other pages leave no trace.
C25_MergeRule ==
  \A r \in Req :
    Extracted(r) =>
      LET res == rq[r].result
          resp == rq[r].ocrResp
      IN /\ Len(res.Pages) = Len(rq[r].include)
         /\ \A i \in DOMAIN res.Pages :
              LET p == rq[r].include[i]
                  answered == (p - 1) \in DOMAIN resp /\ resp[p - 1] # ""
              IN /\ res.Pages[i].PageNumber = p
                 /\ res.Pages[i].Method = IF answered THEN "ocr" ELSE "text-layer"
                 /\ res.Pages[i].Text = IF answered THEN resp[p - 1] ELSE rq[r].texts[i]

\* page 1 of two was selected; the response has blank markdown for it and
\* markdown for page 2: the result is page 1 from the text layer alone
C25_Witness ==
  \E r \in Req :
    /\ Extracted(r) /\ CallSucceeded(r)
    /\ rq[r].total = 2 /\ rq[r].include = <<1>>
    /\ DOMAIN rq[r].ocrResp = {0, 1}
    /\ rq[r].ocrResp[0] = "" /\ rq[r].ocrResp[1] = "md"
    /\ Len(rq[r].result.Pages) = 1
    /\ rq[r].result.Pages[1].Method = "text-layer"

\* ProcessHybrid is past its page loop (inside the Gateway call or returned)
PastPageLoop(r) ==
  /\ rq[r].kind = "extract" /\ Len(rq[r].include) > 0
  /\ Len(rq[r].texts) = Len(rq[r].include)
  /\ rq[r].pc = "ocr_call" \/ Reported(r, {"ok"})

\* C26: a selected page whose text extraction fails does not end
\* ProcessHybrid: the page is evaluated as empty text, the Scorer flags it
\* needsOCR whatever minWordsThreshold the options carry, and it is in the
\* page list of the OCR call (stated as the claim has it).
C26_FailedPageGoesToOcr ==
  \A r \in Req :
    rq[r].kind = "extract" =>
      \A i \in rq[r].failed :
        /\ rq[r].texts[i] = "" /\ rq[r].evals[i].WordCount = 0
        /\ rq[r].evals[i].NeedsOCR
        /\ PastPageLoop(r) =>
             rq[r].ocrCalls = 1 /\ rq[r].include[i] - 1 \in Range(rq[r].ocrArg)

\* The events of trail occur once each and in the order of the list order
Follows(trail, order) ==
  \A i, j \in DOMAIN trail :
    i < j => \E m, n \in DOMAIN order :
               m < n /\ order[m] = trail[i] /\ order[n] = trail[j]

\* the rate limiter turns request r away in this step
RateRejects(r) ==
  /\ rq[r].pc = "rl_allow" /\ buckets[rq[r].lim] <= 0
  /\ rq'[r].pc # "rl_allow"

\* C27 as claimed: the events of an extract request occur in the order rate
\* check, request slot, fetch, page loop, OCR slot, Gateway call, combine,
\* response.
C27_OrderAsClaimed ==
  \A r \in Req :
    rq[r].kind = "extract" =>
      Follows(rq[r].trail, <<"rate", "slot", "fetch", "pages", "ocrslot",
                             "ocrcall", "combine", "response">>)

\* C27 amended: the events of an extract request occur in the order rate
\* check, request slot, fetch, (conditional) OCR slot, page loop, Gateway
\* call, combine, response; nothing comes before the rate check, and a
\* request the rate limiter rejects ends there without a request slot.
C27_Order ==
  /\ [](\A r \in Req :
          rq[r].kind = "extract" =>
            /\ Follows(rq[r].trail, <<"rate", "slot", "fetch", "ocrslot", "pages",
                                   "ocrcall", "combine", "response">>)
            /\ rq[r].trail # << >> => Head(rq[r].trail) = "rate"
            /\ rq[r].holdsReq => Started(r, "slot"))
  /\ [][\A r \in Req :
          RateRejects(r) =>
            /\ rq'[r].pc = "done" /\ ~rq'[r].holdsReq
            /\ requestSem' = requestSem]_vars

\* an extraction went through all eight events, the OCR slot before the
\* page loop
C27_Witness ==
  \E r \in Req :
    /\ rq[r].kind = "extract"
    /\ rq[r].trail = <<"rate", "slot", "fetch", "ocrslot", "pages",
                       "ocrcall", "combine", "response">>

CancelledInLoop(r) ==
  /\ rq[r].kind = "extract" /\ rq[r].cancelled /\ Started(r, "pages")
  /\ rq[r].pc \in {"pages", "ocr_call", "unwind"}
  /\ WithDefaults(rq[r].opts).MinWordsThreshold >= 1

\* C29: when the context is cancelled while ProcessHybrid has a selected
\* page left to extract (minWordsThreshold >= 1), ProcessHybrid never
\* returns success: every remaining page fails to empty text and is flagged
\* needsOCR, the one OCR call is made with the cancelled context and fails,
\* and the result is the failure.
C29_CancelledNeverSucceeds ==
  \A r \in Req :
    CancelledInLoop(r) =>
      /\ \A i \in rq[r].failed : rq[r].texts[i] = "" /\ rq[r].evals[i].NeedsOCR
      /\ PastPageLoop(r) =>
           /\ Len(rq[r].include) \in rq[r].failed
           /\ rq[r].ocrCalls = 1
           /\ \A i \in rq[r].failed : rq[r].include[i] - 1 \in Range(rq[r].ocrArg)
      /\ Reported(r, {"ok"}) =>
           /\ PastPageLoop(r) /\ rq[r].ocrErr
           /\ ~rq[r].result.Success /\ rq[r].result.Error # ""
           /\ rq[r].result.Pages = << >>

\* page 1 was read with a good text layer, the context was cancelled, page 2
\* failed, and the answer is the failure of the OCR call
C29_Witness ==
  \E r \in Req :
    /\ CancelledInLoop(r) /\ Reported(r, {"ok"})
    /\ rq[r].texts = <<"prose", "">> /\ rq[r].failed = {2}
    /\ rq[r].ocrErr /\ ~rq[r].result.Success

\* the conditions of Score that hold for features f, and what they add up to
LowWordCount(f, minWords) == f.wc < minWords

OtherAdjustments(f, minWords) ==
  \/ f.alpha < 35
  \/ f.garbage > 10
  \/ f.lineCount > 0 /\ f.shortLine > 55 /\ f.avgLineLen < 25
  \/ f.wc > 30 /\ f.unique < 25
  \/ f.digit > 25 /\ f.alpha < 20 /\ f.wc >= minWords

Adjustments(f, minWords) ==
  (IF f.wc < minWords THEN 45 ELSE 0)
  + (IF f.alpha < 35 THEN 35 ELSE 0)
  + (IF f.garbage > 10 THEN 40 ELSE 0)
  + (IF f.lineCount > 0 /\ f.shortLine > 55 /\ f.avgLineLen < 25 THEN 25 ELSE 0)
  + (IF f.wc > 30 /\ f.unique < 25 THEN 15 ELSE 0)
  - (IF f.digit > 25 /\ f.alpha < 20 /\ f.wc >= minWords THEN 10 ELSE 0)

\* C30: a page with a non-zero word count below minWords and no other
\* penalty or bonus scores 0.55 and is maybeOCR, not needsOCR; needsOCR is
\* true exactly when the penalties minus the bonus exceed 0.45; needsOCR and
\* maybeOCR are never both true.
C30_LowWordCountIsMaybe ==
  \A r \in Req : \A i \in DOMAIN rq[r].evals :
    LET f == Features(rq[r].texts[i])
        minWords == WithDefaults(rq[r].opts).MinWordsThreshold
        d == rq[r].evals[i]
    IN /\ d.NeedsOCR <=> Adjustments(f, minWords) > 45
       /\ ~(d.NeedsOCR /\ d.MaybeOCR)
       /\ (f.wc > 0 /\ LowWordCount(f, minWords) /\ ~OtherAdjustments(f, minWords)) =>
            d.Quality = 55 /\ d.MaybeOCR /\ ~d.NeedsOCR

\* a page of 8 words under a threshold of 20 with nothing else held against
\* it: answered as text-layer output without a Gateway call
C30_Witness ==
  \E r \in Req :
    /\ rq[r].kind = "extract" /\ Reported(r, {"ok"}) /\ rq[r].ocrCalls = 0
    /\ WithDefaults(rq[r].opts).MinWordsThreshold = 20
    /\ rq[r].texts = <<"note">>
    /\ rq[r].evals[1].Quality = 55 /\ rq[r].evals[1].MaybeOCR
    /\ rq[r].result.Success

====
